---- MODULE Spec2Model ----
\* Interview-practice backend: resume upload, interview creation, the linear
\* interview progression (start / current-question / submit-answer) and report
\* generation, as implemented by the Express routes over the Mongoose models.
\* Documents live in per-collection sequences; a document's _id is its index.
EXTENDS Integers, Sequences, FiniteSets, TLC

\* ---------------------------------------------------------------- bounds
\* documents of each collection, and of the four collections together
MaxResumes == 1
MaxInterviews == 2
MaxResponses == 2
MaxReports == 2
MaxDocuments == 5
\* questions in an array the model returns, and questions of an interview
\* that clients answer
MaxQuestions == 2
\* interviews in the store while requests are followed through their awaits,
\* and Responses stored by such requests
MaxInFlightInterviews == 1
MaxInFlightResponses == 3
QuestionTimeLimitSeconds == 2
MaxCalls == 2
\* entries of each list of a resume profile given to the question builders
MaxSkills == 5
MaxProjects == 3
MaxExperience == 2
MaxInternships == 1

\* ------------------------------------------------------ program constants
\* both fallback builders pad to, and cut at, ten questions
FallbackTotal == 10
\* evaluation sub-scores and overallScore are validated to lie in 0..5;
\* overallScore is kept in tenths (3.0 is 30)
MaxScore == 5
FallbackScore == 3
FallbackOverall == 30

Users == {"u1", "u2"}
NoId == 0

VARIABLES resumes, files, userResumes, interviews, questions, responses,
          reports, reqs, session

vars == <<resumes, files, userResumes, interviews, questions, responses,
          reports, reqs, session>>

db == <<resumes, files, userResumes, interviews, questions, responses, reports>>

\* ------------------------------------------------------------- helpers
Min(a, b) == IF a < b THEN a ELSE b

\* Array.prototype.slice(0, n)
Slice(s, n) == SubSeq(s, 1, Min(n, Len(s)))

Range(s) == {s[i] : i \in 1..Len(s)}

\* ------------------------------------------------------------- schemas
\* questionSchema.category enum
QuestionCategories == {"technical", "project", "internship", "behavioral"}

\* interviewSchema defaults for a new Interview({userId, resumeId, totalQuestions, status})
NewInterview(u, r, n) ==
    [userId |-> u, resumeId |-> r, questions |-> <<>>, responses |-> <<>>,
     reportId |-> NoId, status |-> "pending", currentQuestionIndex |-> 0,
     totalQuestions |-> n, startTime |-> FALSE, endTime |-> FALSE]

\* an HTTP response: the status code, the message of the body, the id of the
\* document the handler created, and the body's `completed` and `question`
Res(code, message, made, completed, question) ==
    [code |-> code, message |-> message, made |-> made,
     completed |-> completed, question |-> question]

Reply(code, message) == Res(code, message, NoId, FALSE, NoId)

\* what a handler does to the store, given as the collections after it, and
\* what it answers
Outcome(res, rs, fs, ur, is, qs, rp, rt) ==
    [res |-> res, resumes |-> rs, files |-> fs, userResumes |-> ur,
     interviews |-> is, questions |-> qs, responses |-> rp, reports |-> rt]

\* a handler that answers without writing
Rejected(res) ==
    Outcome(res, resumes, files, userResumes, interviews, questions, responses, reports)

\* the store after a handler ran to its response
Apply(o) ==
    /\ resumes' = o.resumes
    /\ files' = o.files
    /\ userResumes' = o.userResumes
    /\ interviews' = o.interviews
    /\ questions' = o.questions
    /\ responses' = o.responses
    /\ reports' = o.reports

\* --------------------------------------------------------- resume upload
\* A resume text is a sequence of line-like chunks; a chunk records what the
\* heuristic's patterns see in it.
Chunk(label, terms, proj, exp) ==
    [skillsLabel |-> label, terms |-> terms, project |-> proj, experience |-> exp]

EmptyText == <<>>
SkillsText == <<Chunk(TRUE, <<"Python", "React", "AWS">>, FALSE, FALSE)>>
Texts == {EmptyText, SkillsText}

Profile(sk, pr, ex, it) ==
    [skills |-> sk, projects |-> pr, experience |-> ex, internships |-> it]

\* AIService.parseResume, catch branch: the static profile
ParseResumeFallback ==
    Profile(<<"JavaScript", "React", "Node.js", "MongoDB", "Express">>,
            <<"Sample Project">>, <<"Startup">>, <<"Tech Company">>)

\* profiles the model may return on the normal path
ModelProfiles == {Profile(<<"Go", "SQL">>, <<>>, <<>>, <<>>)}

RECURSIVE Concat(_)
Concat(ss) == IF ss = <<>> THEN <<>> ELSE Head(ss) \o Concat(Tail(ss))

\* ResumeParser.extractStructuredFallback over the chunks of a text
ExtractStructuredFallback(text) ==
    LET labelled == {i \in 1..Len(text) : text[i].skillsLabel}
        first == CHOOSE i \in labelled : \A j \in labelled : i <= j
        skills == IF labelled # {}
                  THEN Slice(text[first].terms, 15)
                  ELSE Slice(Concat([i \in 1..Len(text) |-> text[i].terms]), 10)
        projs == SelectSeq(text, LAMBDA c : c.project)
        exps == SelectSeq(text, LAMBDA c : c.experience)
    IN Profile(skills,
               [i \in 1..Min(3, Len(projs)) |-> "project"],
               [i \in 1..Min(3, Len(exps)) |-> "company"],
               <<>>)

\* what the external model call gives: a failure (network error, timeout or
\* unparseable text), parsed JSON of the wrong shape, or parsed JSON `data`
ModelFail == [kind |-> "fail"]
ModelJunk == [kind |-> "junk"]
ModelJson(data) == [kind |-> "json", data |-> data]

\* AIService.parseResume: the model's JSON, or the static profile when the
\* call or JSON.parse fails
ParseResume(model) ==
    IF model.kind = "fail" THEN ModelJson(ParseResumeFallback) ELSE model

\* multer's fileFilter and size limit: only pdf/docx up to 10MB reach the handler
UploadAccepted(file) == file \in {"pdf", "docx"}

FreshFile == CHOOSE f \in 1..(Cardinality(files) + 1) : f \notin files

\* room in the store for one more document of collection `coll`
StoreRoom(coll, max) ==
    /\ Len(coll) < max
    /\ Len(resumes) + Len(interviews) + Len(responses) + Len(reports) < MaxDocuments

\* a request slot with no request in flight
Idle == [op |-> "idle"]

\* the InterviewSession component before it is mounted: the initial values of
\* its useState hooks, no request sent. `sent` counts the submit-answer
\* requests sent since setQuestion last ran.
NoSession ==
    [page |-> "closed", user |-> "u1", id |-> NoId, question |-> NoId,
     recording |-> FALSE, remainingSeconds |-> QuestionTimeLimitSeconds,
     submitting |-> FALSE, sent |-> [auto |-> 0, manual |-> 0], calls |-> <<>>]

\* POST /api/resume/upload. `parses` is whether parseFile returns `text`;
\* `failAt` is the persistence step that fails, if any.
UploadOutcome(u, file, parses, text, model, failAt) ==
    IF file = "none"
    THEN \* no file part: 400 before anything is stored
         Rejected(Reply(400, "No file uploaded"))
    ELSE IF ~UploadAccepted(file) \/ ~parses \/ text = EmptyText \/ failAt = "resume"
    THEN \* multer rejects the part, parseFile throws, or resume.save()
         \* rejects (originalText is required) or fails: 500, and the
         \* catch removes the stored file
         Rejected(Reply(500, "Failed to upload resume"))
    ELSE \* the Resume is stored; the user's list is updated unless that
         \* update fails, in which case the catch removes the file
         LET parsed == ParseResume(model)
             parsedData == IF parsed.kind = "junk"
                           THEN ExtractStructuredFallback(text)
                           ELSE parsed.data
             f == FreshFile
             rid == Len(resumes) + 1
             stored == Append(resumes, [userId |-> u, originalText |-> text,
                                        parsedData |-> parsedData, filePath |-> f])
         IN IF failAt = "user"
            THEN Outcome(Reply(500, "Failed to upload resume"), stored, files,
                         userResumes, interviews, questions, responses, reports)
            ELSE Outcome(Res(201, "Resume uploaded and parsed successfully", rid, FALSE, NoId),
                         stored, files \cup {f},
                         [userResumes EXCEPT ![u] = Append(@, rid)],
                         interviews, questions, responses, reports)

Upload(u, file, parses, text, model, failAt) ==
    /\ StoreRoom(resumes, MaxResumes)
    /\ Apply(UploadOutcome(u, file, parses, text, model, failAt))
    /\ UNCHANGED <<reqs, session>>

\* --------------------------------------------------- question generation
\* a generated question: its category and its text, kept as the template used
\* and the resume literal the template embeds
Q(category, tpl, arg) == [category |-> category, question |-> [tpl |-> tpl, arg |-> arg]]

\* the padding loop without the final slice (for comparison)
PadBehavioralUncut(qs) ==
    qs \o [i \in 1..(FallbackTotal - Len(qs)) |-> Q("behavioral", "filler", "")]

\* the `while (length < 10) push(behavioral)` loop and the final slice(0, 10)
PadBehavioral(qs) ==
    Slice(qs \o [i \in 1..(FallbackTotal - Len(qs)) |-> Q("behavioral", "filler", "")],
          FallbackTotal)

\* generateFallbackQuestions(parsedData) of the interview routes
generateFallbackQuestions(p) ==
    LET tech == [i \in 1..Min(3, Len(p.skills)) |-> Q("technical", "usage", p.skills[i])]
        proj == [i \in 1..Min(2, Len(p.projects)) |-> Q("project", "tell", p.projects[i])]
        exp == [i \in 1..Min(2, Len(p.experience)) |-> Q("experience", "at", p.experience[i])]
        int == [i \in 1..Min(1, Len(p.internships)) |-> Q("internship", "during", p.internships[i])]
    IN PadBehavioral(tech \o proj \o exp \o int)

\* AIService.generateQuestions, catch branch: two questions per project
GenerateQuestionsFallback(p) ==
    LET tech == [i \in 1..Min(3, Len(p.skills)) |-> Q("technical", "deepdive", p.skills[i])]
        proj == [i \in 1..(2 * Min(3, Len(p.projects))) |->
                    IF i % 2 = 1 THEN Q("project", "design", p.projects[(i + 1) \div 2])
                                 ELSE Q("project", "perf", p.projects[i \div 2])]
        exp == [i \in 1..Min(2, Len(p.experience)) |-> Q("experience", "hard", p.experience[i])]
        int == [i \in 1..Min(1, Len(p.internships)) |-> Q("internship", "build", p.internships[i])]
    IN PadBehavioral(tech \o proj \o exp \o int)

\* AIService.generateQuestions: the parsed JSON, or the fallback list when the
\* call or JSON.parse fails
GenerateQuestions(model, p) ==
    IF model.kind = "fail" THEN ModelJson(GenerateQuestionsFallback(p)) ELSE model

\* question arrays the model may return: up to MaxQuestions items, all of an
\* accepted category or ending in one of category experience
ModelQuestionSets ==
    {[i \in 1..n |-> Q("technical", "model", "")] : n \in 0..MaxQuestions} \cup
    {[i \in 1..MaxQuestions |-> IF i < MaxQuestions THEN Q("technical", "model", "")
                                         ELSE Q("experience", "model", "")]}

\* ------------------------------------------------------------ queries
\* a lookup by _id alone, without the userId filter (for comparison)
FindUnscoped(coll, id, u) == id \in 1..Len(coll)

\* Model.findOne({_id: id, userId: u}) on a collection of owned documents
FindOwned(coll, id, u) == id \in 1..Len(coll) /\ coll[id].userId = u

\* a lookup by _id alone, without the interviewId filter (for comparison)
FindQuestionAnywhere(qid, iid) == qid \in 1..Len(questions)

\* Question.findOne({_id: qid, interviewId: iid})
FindQuestion(qid, iid) == qid \in 1..Len(questions) /\ questions[qid].interviewId = iid

\* the index of the first question whose save() fails validation (its category
\* is outside the schema's enum), or 0 when all are accepted
FirstInvalid(qs) ==
    LET bad == {i \in 1..Len(qs) : qs[i].category \notin QuestionCategories}
    IN IF bad = {} THEN 0 ELSE CHOOSE i \in bad : \A j \in bad : i <= j

\* ------------------------------------------------------ interview routes
\* POST /api/interview/create
CreateOutcome(u, resumeId, model, failAt) ==
    IF ~FindOwned(resumes, resumeId, u)
    THEN Rejected(Reply(404, "Resume not found"))
    ELSE IF failAt = "interview"
    THEN \* the first interview.save() fails
         Rejected(Reply(500, "Failed to create interview"))
    ELSE
         LET parsedData == resumes[resumeId].parsedData
             generated == GenerateQuestions(model, parsedData)
             qs == IF generated.kind = "junk" \/ generated.data = <<>>
                   THEN generateFallbackQuestions(parsedData)
                   ELSE generated.data
             iid == Len(interviews) + 1
             bad == FirstInvalid(qs)
             saved == IF bad = 0 THEN Len(qs) ELSE bad - 1
             qdocs == [i \in 1..saved |->
                          [interviewId |-> iid, text |-> qs[i].question,
                           category |-> qs[i].category, order |-> i]]
             qids == [i \in 1..saved |-> Len(questions) + i]
             linked == bad = 0 /\ failAt # "link"
             doc == NewInterview(u, resumeId, Len(qs))
         IN Outcome(IF linked
                    THEN Res(201, "Interview created successfully", iid, FALSE, NoId)
                    ELSE Reply(500, "Failed to create interview"),
                    resumes, files, userResumes,
                    Append(interviews, IF linked THEN [doc EXCEPT !.questions = qids] ELSE doc),
                    questions \o qdocs, responses, reports)

Create(u, resumeId, model, failAt) ==
    /\ StoreRoom(interviews, MaxInterviews)
    /\ Apply(CreateOutcome(u, resumeId, model, failAt))
    /\ UNCHANGED <<reqs, session>>

\* a save that writes the whole loaded document back (for comparison)
SaveWhole(stored, read, doc) == doc

\* Document.prototype.save() of a loaded document: Mongoose writes only the
\* paths that changed since the load (`read`) over what is stored now; a push
\* onto an array is written as a $push of the new elements
SaveDelta(stored, read, doc) ==
    [f \in DOMAIN doc |->
        IF f = "responses"
        THEN stored[f] \o SubSeq(doc[f], Len(read[f]) + 1, Len(doc[f]))
        ELSE IF doc[f] # read[f] THEN doc[f] ELSE stored[f]]

\* POST /api/interview/:id/start
StartOutcome(u, id, fails) ==
    IF ~FindOwned(interviews, id, u)
    THEN Rejected(Reply(404, "Interview not found"))
    ELSE IF fails
    THEN Rejected(Reply(500, "Server error"))
    ELSE LET read == interviews[id]
             doc == [read EXCEPT !.status = "in-progress", !.startTime = TRUE]
         IN Outcome(Reply(200, "Interview started successfully"),
                    resumes, files, userResumes,
                    [interviews EXCEPT ![id] = SaveDelta(@, read, doc)],
                    questions, responses, reports)

Start(u, id, fails) ==
    /\ Apply(StartOutcome(u, id, fails))
    /\ UNCHANGED <<reqs, session>>

\* the body of GET current-question for a loaded interview: the completed
\* sentinel, or the question at currentQuestionIndex
CurrentQuestionOf(doc) ==
    IF doc.currentQuestionIndex >= Len(doc.questions)
    THEN [completed |-> TRUE, question |-> NoId]
    ELSE [completed |-> FALSE, question |-> doc.questions[doc.currentQuestionIndex + 1]]

\* GET /api/interview/:id/current-question
CurrentQuestionOutcome(u, id) ==
    IF ~FindOwned(interviews, id, u)
    THEN Rejected(Reply(404, "Interview not found"))
    ELSE LET body == CurrentQuestionOf(interviews[id])
         IN Rejected(Res(200, IF body.completed THEN "Interview completed" ELSE "",
                         NoId, body.completed, body.question))

CurrentQuestion(u, id) ==
    /\ Apply(CurrentQuestionOutcome(u, id))
    /\ UNCHANGED <<reqs, session>>

\* ----------------------------------------------------------- evaluation
Eval(t, c, f, sentiment, reading, silence, irrelevant, overall) ==
    [technicalDepth |-> t, clarity |-> c, confidence |-> f, sentiment |-> sentiment,
     flags |-> [reading |-> reading, silence |-> silence, irrelevant |-> irrelevant],
     overallScore |-> overall]

\* AIService.evaluateResponse, catch branch
EvaluateResponseFallback ==
    Eval(FallbackScore, FallbackScore, FallbackScore, "positive",
         FALSE, FALSE, FALSE, FallbackOverall)

\* the catch branch around the evaluateResponse call in submit-answer
RouteFallbackEvaluation ==
    Eval(FallbackScore, FallbackScore, FallbackScore, "neutral",
         FALSE, FALSE, FALSE, FallbackOverall)

\* evaluations the model may return: one the schema accepts, one it rejects
ModelEvaluations ==
    {Eval(4, 3, 4, "negative", TRUE, FALSE, TRUE, 37),
     Eval(7, 3, 4, "positive", FALSE, FALSE, FALSE, 37)}

\* AIService.evaluateResponse: the parsed JSON, or the fallback when the call
\* or JSON.parse fails; it never throws
EvaluateResponse(model) ==
    IF model.kind = "fail" THEN ModelJson(EvaluateResponseFallback) ELSE model

\* responseSchema validation of an evaluation
ValidEvaluation(e) ==
    /\ e.technicalDepth \in 0..MaxScore
    /\ e.clarity \in 0..MaxScore
    /\ e.confidence \in 0..MaxScore
    /\ e.sentiment \in {"positive", "neutral", "negative"}
    /\ e.overallScore \in 0..(10 * MaxScore)

Placeholder == "(transcript unavailable)"
\* client transcripts: absent or empty, blank, a text, a text within blanks
Transcripts == {"", " ", "a", " a "}

\* String.prototype.trim on the transcripts above
Trim(t) == CASE t = " " -> "" [] t = " a " -> "a" [] OTHER -> t

\* aiService.transcribeAudio(path): AIService defines no such method, so the
\* call throws a TypeError
TranscribeAudio == ModelFail

\* the client transcript stored as it came (for comparison)
FinalTranscriptRaw(transcript, audio) == transcript

\* the final transcript: the trimmed client transcript; when that is empty
\* and an audio file came, the server-side transcription unless the call
\* throws (the catch is empty); when still empty, the placeholder
FinalTranscript(transcript, audio) ==
    LET client == Trim(transcript)
        final == IF client = "" /\ audio /\ TranscribeAudio.kind # "fail"
                 THEN TranscribeAudio.data ELSE client
    IN IF final # "" THEN final ELSE Placeholder

\* the update with > in place of >= in the completion test (for comparison)
AdvanceInterviewLate(doc, rid) ==
    LET idx == doc.currentQuestionIndex + 1
    IN [doc EXCEPT !.responses = Append(@, rid),
                   !.currentQuestionIndex = idx,
                   !.status = IF idx > doc.totalQuestions THEN "completed" ELSE "in-progress",
                   !.endTime = IF idx > doc.totalQuestions THEN TRUE ELSE @]

\* the in-memory update of the interview after response.save()
AdvanceInterview(doc, rid) ==
    LET idx == doc.currentQuestionIndex + 1
    IN [doc EXCEPT !.responses = Append(@, rid),
                   !.currentQuestionIndex = idx,
                   !.status = IF idx >= doc.totalQuestions THEN "completed" ELSE "in-progress",
                   !.endTime = IF idx >= doc.totalQuestions THEN TRUE ELSE @]

\* POST /api/interview/:id/submit-answer
SubmitAnswerOutcome(u, id, qid, transcript, audio, model, failAt) ==
    IF ~FindOwned(interviews, id, u)
    THEN Rejected(Reply(404, "Interview not found"))
    ELSE IF ~FindQuestion(qid, id)
    THEN Rejected(Reply(404, "Question not found"))
    ELSE
         LET evaluated == EvaluateResponse(model)
             evaluation == IF evaluated.kind = "throw"
                           THEN RouteFallbackEvaluation ELSE evaluated.data
             rid == Len(responses) + 1
             response == [questionId |-> qid,
                          transcript |-> FinalTranscript(transcript, audio),
                          evaluation |-> evaluation]
             read == interviews[id]
             doc == AdvanceInterview(read, rid)
         IN IF ~ValidEvaluation(evaluation) \/ failAt = "response"
            THEN \* response.save() rejects or fails
                 Rejected(Reply(500, "Failed to submit answer"))
            ELSE IF failAt = "interview"
            THEN \* the Response is stored and interview.save() fails
                 Outcome(Reply(500, "Failed to submit answer"),
                         resumes, files, userResumes, interviews, questions,
                         Append(responses, response), reports)
            ELSE Outcome(Res(200, "Answer submitted successfully", rid,
                             doc.status = "completed", NoId),
                         resumes, files, userResumes,
                         [interviews EXCEPT ![id] = SaveDelta(@, read, doc)],
                         questions, Append(responses, response), reports)

SubmitAnswer(u, id, qid, transcript, audio, model, failAt) ==
    /\ StoreRoom(responses, MaxResponses)
    /\ Apply(SubmitAnswerOutcome(u, id, qid, transcript, audio, model, failAt))
    /\ UNCHANGED <<reqs, session>>

\* --------------------------------------------------------- evaluation routes
\* Response.find({questionId: {$in: interview.questions}}): the ids of the
\* matching Responses, in stored order
ResponsesFor(resps, doc) ==
    SelectSeq([i \in 1..Len(resps) |-> i],
              LAMBDA r : resps[r].questionId \in Range(doc.questions))

RECURSIVE SumSeq(_)
SumSeq(s) == IF s = <<>> THEN 0 ELSE Head(s) + SumSeq(Tail(s))

\* responses.reduce adding the evaluation's field f of every response
Sum(s, f) == SumSeq([i \in 1..Len(s) |-> s[i][f]])

\* responses.reduce adding 1 for every response whose flag f is set
Count(s, f) == Len(SelectSeq(s, LAMBDA e : e.flags[f]))

\* the number of responses with some flag set (for comparison)
TotalFlagged(s) ==
    Len(SelectSeq(s, LAMBDA e : \E k \in DOMAIN e.flags : e.flags[k]))

\* the sum over the responses of the number of flags each has set
TotalFlags(s) ==
    SumSeq([i \in 1..Len(s) |-> Cardinality({k \in DOMAIN s[i].flags : s[i].flags[k]})])

\* an average kept exact: the sum and the number it is divided by
Ratio(sum, n) == [sum |-> sum, n |-> n]

\* the narrative AIService.generateReport returns: the model's, or the
\* templated one when the call or JSON.parse fails
GenerateReportNarrative(model) == IF model.kind = "fail" THEN "template" ELSE model.data

\* aiService.generateReport(transcripts, questions): the i-th question of the
\* interview's list with the i-th of the Responses found (ids `rs`), or with
\* 'No response' (NoId) when there is none
Paired(doc, rs) ==
    [i \in 1..Len(doc.questions) |->
        [q |-> doc.questions[i], a |-> IF i <= Len(rs) THEN rs[i] ELSE NoId]]

\* a divisor taken from the interview instead (for comparison)
NumResponsesExpected(rs, doc) == doc.totalQuestions

\* const numResponses = responses.length
NumResponses(rs, doc) == Len(rs)

\* the Report document built from the Responses found (ids `rs` into `resps`)
BuildReport(resps, doc, id, rs, model) ==
    LET evs == [i \in 1..Len(rs) |-> resps[rs[i]].evaluation]
        n == NumResponses(rs, doc)
        averageScores ==
            [technicalDepth |-> Ratio(Sum(evs, "technicalDepth"), n),
             clarity |-> Ratio(Sum(evs, "clarity"), n),
             confidence |-> Ratio(Sum(evs, "confidence"), n),
             overall |-> Ratio(Sum(evs, "overallScore"), n)]
        flags ==
            [totalFlags |-> TotalFlags(evs),
             readingCount |-> Count(evs, "reading"),
             silenceCount |-> Count(evs, "silence"),
             irrelevantCount |-> Count(evs, "irrelevant")]
    IN [interviewId |-> id,
        summary |-> [totalQuestions |-> doc.totalQuestions,
                     averageScore |-> averageScores.overall,
                     narrative |-> GenerateReportNarrative(model)],
        scores |-> averageScores,
        flags |-> flags,
        transcript |-> [i \in 1..Len(rs) |-> resps[rs[i]].transcript]]

\* a guard that lets every interview through (for comparison)
ReportAlwaysAllowed(doc) == TRUE

\* a test that never finds the list of Responses wanting (for comparison)
NoResponsesIgnored(found) == FALSE

\* the guard of generate-report on the Responses found: responses.length === 0
NoResponses(found) == found = <<>>

\* the guard of generate-report on the loaded interview
ReportAllowed(doc) == doc.status = "completed"

\* POST /api/evaluation/:interviewId/generate-report
GenerateReportOutcome(u, id, model, failAt) ==
    IF ~FindOwned(interviews, id, u)
    THEN Rejected(Reply(404, "Interview not found"))
    ELSE IF ~ReportAllowed(interviews[id])
    THEN Rejected(Reply(400, "Interview must be completed to generate report"))
    ELSE IF NoResponses(ResponsesFor(responses, interviews[id]))
    THEN Rejected(Reply(400, "No responses found for this interview"))
    ELSE IF failAt = "report"
    THEN Rejected(Reply(500, "Failed to generate report"))
    ELSE LET read == interviews[id]
             report == BuildReport(responses, read, id, ResponsesFor(responses, read), model)
             pid == Len(reports) + 1
             doc == [read EXCEPT !.reportId = pid]
         IN IF failAt = "interview"
            THEN Outcome(Reply(500, "Failed to generate report"),
                         resumes, files, userResumes, interviews, questions,
                         responses, Append(reports, report))
            ELSE Outcome(Res(200, "Report generated successfully", pid, FALSE, NoId),
                         resumes, files, userResumes,
                         [interviews EXCEPT ![id] = SaveDelta(@, read, doc)],
                         questions, responses, Append(reports, report))

GenerateReport(u, id, model, failAt) ==
    /\ StoreRoom(reports, MaxReports)
    /\ Apply(GenerateReportOutcome(u, id, model, failAt))
    /\ UNCHANGED <<reqs, session>>

\* --------------------------------------------------- remaining routes
\* a 200 answer whose body is the document (or summary) read
Found(body) ==
    [code |-> 200, message |-> "", made |-> NoId, completed |-> FALSE,
     question |-> NoId, body |-> body]

\* what is left at the _id of a Resume after findByIdAndDelete: no query
\* finds it
NoUser == "nobody"
DeletedResume ==
    [userId |-> NoUser, originalText |-> EmptyText,
     parsedData |-> Profile(<<>>, <<>>, <<>>, <<>>), filePath |-> NoId]

\* GET /api/resume/:id
GetResumeOutcome(u, id) ==
    IF ~FindOwned(resumes, id, u)
    THEN Rejected(Reply(404, "Resume not found"))
    ELSE Rejected(Found(resumes[id]))

GetResume(u, id) ==
    /\ Apply(GetResumeOutcome(u, id))
    /\ UNCHANGED <<reqs, session>>

\* DELETE /api/resume/:id: the file, the Resume and the entry of the user's
\* list are removed one after the other; `failAt` is the step that fails
DeleteResumeOutcome(u, id, failAt) ==
    IF ~FindOwned(resumes, id, u)
    THEN Rejected(Reply(404, "Resume not found"))
    ELSE IF failAt = "file"
    THEN Rejected(Reply(500, "Server error"))
    ELSE LET fs == files \ {resumes[id].filePath}
             rs == [resumes EXCEPT ![id] = DeletedResume]
             ur == [userResumes EXCEPT ![u] = SelectSeq(@, LAMBDA r : r # id)]
         IN IF failAt = "resume"
            THEN Outcome(Reply(500, "Server error"), resumes, fs, userResumes,
                         interviews, questions, responses, reports)
            ELSE IF failAt = "user"
            THEN Outcome(Reply(500, "Server error"), rs, fs, userResumes,
                         interviews, questions, responses, reports)
            ELSE Outcome(Reply(200, "Resume deleted successfully"), rs, fs, ur,
                         interviews, questions, responses, reports)

DeleteResume(u, id, failAt) ==
    /\ Apply(DeleteResumeOutcome(u, id, failAt))
    /\ UNCHANGED <<reqs, session>>

\* GET /api/interview/:id, with its questions populated
GetInterviewOutcome(u, id) ==
    IF ~FindOwned(interviews, id, u)
    THEN Rejected(Reply(404, "Interview not found"))
    ELSE Rejected(Found([interview |-> interviews[id],
                         questions |-> [k \in 1..Len(interviews[id].questions) |->
                                           questions[interviews[id].questions[k]]]]))

GetInterview(u, id) ==
    /\ Apply(GetInterviewOutcome(u, id))
    /\ UNCHANGED <<reqs, session>>

\* Report.findById(id).populate({path: 'interviewId', match: {userId: u}}):
\* the populated interviewId is null unless the interview is the user's
FindReport(id, u) ==
    /\ id \in 1..Len(reports)
    /\ FindOwned(interviews, reports[id].interviewId, u)

\* GET /api/evaluation/report/:reportId
GetReportOutcome(u, id) ==
    IF ~FindReport(id, u)
    THEN Rejected(Reply(404, "Report not found"))
    ELSE Rejected(Found([report |-> reports[id],
                         interview |-> interviews[reports[id].interviewId]]))

GetReport(u, id) ==
    /\ Apply(GetReportOutcome(u, id))
    /\ UNCHANGED <<reqs, session>>

\* GET /api/evaluation/:interviewId/summary
GetSummaryOutcome(u, id) ==
    IF ~FindOwned(interviews, id, u)
    THEN Rejected(Reply(404, "Interview not found"))
    ELSE LET rs == ResponsesFor(responses, interviews[id])
             evs == [i \in 1..Len(rs) |-> responses[rs[i]].evaluation]
             n == Len(rs)
         IN Rejected(Found(
              [totalQuestions |-> interviews[id].totalQuestions,
               completedQuestions |-> n,
               averageScores |->
                   IF n > 0
                   THEN [technicalDepth |-> Ratio(Sum(evs, "technicalDepth"), n),
                         clarity |-> Ratio(Sum(evs, "clarity"), n),
                         confidence |-> Ratio(Sum(evs, "confidence"), n),
                         overall |-> Ratio(Sum(evs, "overallScore"), n)]
                   ELSE [technicalDepth |-> Ratio(0, 1), clarity |-> Ratio(0, 1),
                         confidence |-> Ratio(0, 1), overall |-> Ratio(0, 1)],
               flags |-> [total |-> TotalFlags(evs),
                          reading |-> Count(evs, "reading"),
                          silence |-> Count(evs, "silence"),
                          irrelevant |-> Count(evs, "irrelevant")],
               responses |-> [i \in 1..n |-> responses[rs[i]]]]))

GetSummary(u, id) ==
    /\ Apply(GetSummaryOutcome(u, id))
    /\ UNCHANGED <<reqs, session>>

\* Response.findById(id).populate({path: 'questionId', populate: {path:
\* 'interviewId', match: {userId: u}}})
FindResponse(id, u) ==
    /\ id \in 1..Len(responses)
    /\ FindOwned(interviews, questions[responses[id].questionId].interviewId, u)

\* GET /api/evaluation/response/:responseId
GetResponseOutcome(u, id) ==
    IF ~FindResponse(id, u)
    THEN Rejected(Reply(404, "Response not found"))
    ELSE Rejected(Found(responses[id]))

GetResponse(u, id) ==
    /\ Apply(GetResponseOutcome(u, id))
    /\ UNCHANGED <<reqs, session>>

Init ==
    /\ resumes = <<>>
    /\ files = {}
    /\ userResumes = [u \in Users |-> <<>>]
    /\ interviews = <<>>
    /\ questions = <<>>
    /\ responses = <<>>
    /\ reports = <<>>
    /\ reqs = <<Idle, Idle>>
    /\ session = NoSession


\* ------------------------------------------------ requests in flight
\* submit-answer and generate-report as they run: a handler is suspended at
\* each await and other requests run in between. A slot holds the request's
\* local variables; `read` is the interview document it loaded.
Slots == 1..2

\* a new request takes the first free slot
FreeSlot(s) == reqs[s] = Idle /\ \A t \in Slots : reqs[t] = Idle => s <= t

\* await Interview.findOne(...)
SubmitLoad(s, u, id, qid, transcript, audio, model, failAt) ==
    /\ UNCHANGED session
    /\ FreeSlot(s)
    /\ StoreRoom(responses, MaxInFlightResponses)
    /\ FindOwned(interviews, id, u)
    /\ reqs' = [reqs EXCEPT ![s] =
                   [op |-> "submit-answer", pc |-> "evaluate", id |-> id, qid |-> qid,
                    in |-> <<transcript, audio, model, failAt>>, read |-> interviews[id],
                    evaluation |-> EvaluateResponseFallback, made |-> NoId]]
    /\ UNCHANGED db

\* await Question.findOne(...), then await aiService.evaluateResponse(...)
SubmitEvaluate(s) ==
    LET r == reqs[s]
        evaluated == EvaluateResponse(r.in[3])
    IN /\ r.op = "submit-answer" /\ r.pc = "evaluate"
       /\ UNCHANGED session
       /\ reqs' = [reqs EXCEPT ![s] =
              IF ~FindQuestion(r.qid, r.id) THEN Idle
              ELSE [r EXCEPT !.pc = "save-response",
                             !.evaluation = IF evaluated.kind = "throw"
                                            THEN RouteFallbackEvaluation
                                            ELSE evaluated.data]]
       /\ UNCHANGED db

\* await response.save()
SubmitSaveResponse(s) ==
    LET r == reqs[s]
        response == [questionId |-> r.qid,
                     transcript |-> FinalTranscript(r.in[1], r.in[2]),
                     evaluation |-> r.evaluation]
    IN /\ r.op = "submit-answer" /\ r.pc = "save-response"
       /\ UNCHANGED session
       /\ IF ~ValidEvaluation(r.evaluation) \/ r.in[4] = "response"
             \/ ~StoreRoom(responses, MaxInFlightResponses)
          THEN reqs' = [reqs EXCEPT ![s] = Idle] /\ UNCHANGED responses
          ELSE /\ responses' = Append(responses, response)
               /\ reqs' = [reqs EXCEPT ![s] =
                              [r EXCEPT !.pc = "save-interview",
                                        !.made = Len(responses) + 1]]
       /\ UNCHANGED <<resumes, files, userResumes, interviews, questions, reports>>

\* the update of the loaded document, then await interview.save()
SubmitSaveInterview(s) ==
    LET r == reqs[s]
        doc == AdvanceInterview(r.read, r.made)
    IN /\ r.op = "submit-answer" /\ r.pc = "save-interview"
       /\ UNCHANGED session
       /\ interviews' = IF r.in[4] = "interview" THEN interviews
                        ELSE [interviews EXCEPT ![r.id] = SaveDelta(@, r.read, doc)]
       /\ reqs' = [reqs EXCEPT ![s] = Idle]
       /\ UNCHANGED <<resumes, files, userResumes, questions, responses, reports>>

\* await Interview.findOne(...).populate('questions'), and the status guard
ReportLoad(s, u, id, model, failAt) ==
    /\ UNCHANGED session
    /\ FreeSlot(s)
    /\ StoreRoom(reports, MaxReports)
    /\ FindOwned(interviews, id, u)
    /\ ReportAllowed(interviews[id])
    /\ reqs' = [reqs EXCEPT ![s] =
                   [op |-> "generate-report", pc |-> "find", id |-> id, qid |-> NoId,
                    in |-> <<model, failAt>>, read |-> interviews[id],
                    found |-> <<>>, made |-> NoId]]
    /\ UNCHANGED db

\* await Response.find(...)
ReportFind(s) ==
    LET r == reqs[s]
        found == ResponsesFor(responses, r.read)
    IN /\ r.op = "generate-report" /\ r.pc = "find"
       /\ UNCHANGED session
       /\ reqs' = [reqs EXCEPT ![s] =
              IF NoResponses(found) THEN Idle
              ELSE [r EXCEPT !.pc = "save-report",
                             !.found = [i \in 1..Len(found) |-> responses[found[i]]]]]
       /\ UNCHANGED db

\* await aiService.generateReport(...), then await report.save()
ReportSave(s) ==
    LET r == reqs[s]
        report == BuildReport(r.found, r.read, r.id,
                              [i \in 1..Len(r.found) |-> i], r.in[1])
    IN /\ r.op = "generate-report" /\ r.pc = "save-report"
       /\ UNCHANGED session
       /\ IF r.in[2] = "report" \/ ~StoreRoom(reports, MaxReports)
          THEN reqs' = [reqs EXCEPT ![s] = Idle] /\ UNCHANGED reports
          ELSE /\ reports' = Append(reports, report)
               /\ reqs' = [reqs EXCEPT ![s] =
                              [r EXCEPT !.pc = "save-interview",
                                        !.made = Len(reports) + 1]]
       /\ UNCHANGED <<resumes, files, userResumes, interviews, questions, responses>>

\* interview.reportId = report._id, then await interview.save()
ReportLink(s) ==
    LET r == reqs[s]
        doc == [r.read EXCEPT !.reportId = r.made]
    IN /\ r.op = "generate-report" /\ r.pc = "save-interview"
       /\ UNCHANGED session
       /\ interviews' = IF r.in[2] = "interview" THEN interviews
                        ELSE [interviews EXCEPT ![r.id] = SaveDelta(@, r.read, doc)]
       /\ reqs' = [reqs EXCEPT ![s] = Idle]
       /\ UNCHANGED <<resumes, files, userResumes, questions, responses, reports>>

\* ------------------------------------------------------- specification
\* The requests the clients make. Every handler is tried with each of its
\* response paths; the paths that store a document are tried with the
\* variations of the stored document.
UploadInputs ==
    {<<"none", TRUE, SkillsText, ModelFail, "none">>,
     <<"other", TRUE, SkillsText, ModelFail, "none">>,
     <<"pdf", FALSE, SkillsText, ModelFail, "none">>,
     <<"pdf", TRUE, EmptyText, ModelFail, "none">>,
     <<"pdf", TRUE, SkillsText, ModelFail, "resume">>,
     <<"pdf", TRUE, SkillsText, ModelFail, "none">>,
     <<"docx", FALSE, SkillsText, ModelJunk, "user">>} \cup
    {<<"pdf", TRUE, SkillsText, ModelJson(p), "none">> : p \in ModelProfiles}

CreateInputs ==
    {<<ModelFail, "none">>, <<ModelJunk, "none">>, <<ModelFail, "interview">>} \cup
    {<<ModelJson(qs), "none">> : qs \in ModelQuestionSets} \cup
    {<<ModelJson(qs), "link">> : qs \in {s \in ModelQuestionSets : Len(s) = MaxQuestions}}

SubmitInputs ==
    {<<"", TRUE, ModelFail, "none">>,
     <<"", TRUE, ModelFail, "response">>,
     <<"", TRUE, ModelFail, "interview">>} \cup
    {<<" a ", FALSE, ModelJson(e), "none">> : e \in ModelEvaluations}

ReportInputs ==
    {<<ModelFail, "none">>, <<ModelJson("model"), "none">>,
     <<ModelFail, "report">>, <<ModelFail, "interview">>}

\* a delete runs through, or fails at its first step
DeleteInputs == {"none", "file"}

ResumeIds == 1..(Len(resumes) + 1)
ResponseIds == 1..(Len(responses) + 1)
ReportIds == 1..(Len(reports) + 1)
InterviewIds == 1..(Len(interviews) + 1)
\* the questions a client answers: the first MaxQuestions of an interview, or
\* an id no Question has
QuestionIds ==
    {q \in 1..Len(questions) : questions[q].order <= MaxQuestions} \cup {Len(questions) + 1}

Next ==
    \/ \E u \in Users, in \in UploadInputs :
          Upload(u, in[1], in[2], in[3], in[4], in[5])
    \/ \E u \in Users, r \in ResumeIds, in \in CreateInputs :
          Create(u, r, in[1], in[2])
    \/ \E u \in Users, i \in InterviewIds, fails \in BOOLEAN : Start(u, i, fails)
    \/ \E u \in Users, i \in InterviewIds : CurrentQuestion(u, i)
    \/ \E u \in Users, i \in InterviewIds, q \in QuestionIds, in \in SubmitInputs :
          SubmitAnswer(u, i, q, in[1], in[2], in[3], in[4])
    \/ \E u \in Users, i \in InterviewIds, in \in ReportInputs :
          GenerateReport(u, i, in[1], in[2])
    \/ \E u \in Users, r \in ResumeIds : GetResume(u, r)
    \/ \E u \in Users, r \in ResumeIds, failAt \in DeleteInputs : DeleteResume(u, r, failAt)
    \/ \E u \in Users, i \in InterviewIds : GetInterview(u, i)
    \/ \E u \in Users, p \in ReportIds : GetReport(u, p)
    \/ \E u \in Users, i \in InterviewIds : GetSummary(u, i)
    \/ \E u \in Users, r \in ResponseIds : GetResponse(u, r)

Spec == Init /\ [][Next]_vars

\* the same store with submit-answer and generate-report requests suspended
\* at their awaits, two at a time; the requests are those in which no
\* persistence step fails
InFlightUploadInputs == {<<"pdf", TRUE, SkillsText, ModelJson(p), "none">> : p \in ModelProfiles}
InFlightCreateInputs ==
    {<<ModelJson(qs), "none">> :
        qs \in {s \in ModelQuestionSets : s # <<>> /\ FirstInvalid(s) = 0}}
InFlightSubmitInputs == {<<"a", FALSE, ModelFail, "none">>}
InFlightReportInputs == {<<ModelFail, "none">>}

NextInFlight ==
    \/ \E u \in Users, in \in InFlightUploadInputs :
          Upload(u, in[1], in[2], in[3], in[4], in[5])
    \/ \E u \in Users, r \in ResumeIds, in \in InFlightCreateInputs :
          Len(interviews) < MaxInFlightInterviews /\ Create(u, r, in[1], in[2])
    \/ \E u \in Users, i \in InterviewIds : Start(u, i, FALSE)
    \/ \E s \in Slots, u \in Users, i \in InterviewIds, q \in QuestionIds,
          in \in InFlightSubmitInputs :
          SubmitLoad(s, u, i, q, in[1], in[2], in[3], in[4])
    \/ \E s \in Slots : SubmitEvaluate(s)
    \/ \E s \in Slots : SubmitSaveResponse(s)
    \/ \E s \in Slots : SubmitSaveInterview(s)
    \/ \E s \in Slots, u \in Users, i \in InterviewIds, in \in InFlightReportInputs :
          ReportLoad(s, u, i, in[1], in[2])
    \/ \E s \in Slots : ReportFind(s)
    \/ \E s \in Slots : ReportSave(s)
    \/ \E s \in Slots : ReportLink(s)

SpecInFlight == Init /\ [][NextInFlight]_vars

\* the question builders on their own: the store holds one resume of user u1
\* whose profile is any with up to MaxSkills skills, MaxProjects projects,
\* MaxExperience experience entries and MaxInternships internships, and
\* interviews are created from it while the model gives no usable questions
SkillNames == <<"Python", "React", "AWS", "Go", "SQL", "Rust">>
ProjectNames == <<"Shop", "Chat", "Blog", "Maps">>
CompanyNames == <<"Acme", "Initech", "Globex">>
InternNames == <<"Hooli", "Umbrella">>

BuilderProfiles ==
    {Profile(SubSeq(SkillNames, 1, a), SubSeq(ProjectNames, 1, b),
             SubSeq(CompanyNames, 1, c), SubSeq(InternNames, 1, d)) :
        a \in 0..MaxSkills, b \in 0..MaxProjects,
        c \in 0..MaxExperience, d \in 0..MaxInternships}

InitBuilder ==
    /\ \E p \in BuilderProfiles :
          resumes = <<[userId |-> "u1", originalText |-> SkillsText,
                       parsedData |-> p, filePath |-> 1]>>
    /\ files = {1}
    /\ userResumes = [u \in Users |-> IF u = "u1" THEN <<1>> ELSE <<>>]
    /\ interviews = <<>>
    /\ questions = <<>>
    /\ responses = <<>>
    /\ reports = <<>>
    /\ reqs = <<Idle, Idle>>
    /\ session = NoSession

BuilderCreateInputs ==
    {<<ModelFail, "none">>, <<ModelJunk, "none">>, <<ModelJson(<<>>), "none">>}

NextBuilder ==
    \E u \in Users, r \in ResumeIds, in \in BuilderCreateInputs :
        Create(u, r, in[1], in[2])

SpecBuilder == InitBuilder /\ [][NextBuilder]_vars

\* ------------------------------------------------- interview session
\* The InterviewSession component of the client and the requests it has in
\* flight. A call is sent by a handler of the component, served by the route
\* and then continued on the client. The Start Interview button, shown only
\* while no question is displayed, is left out: recording starts from the
\* Start Recording button.
ClientTexts == {"", " a "}

\* transcript.trim() || "(transcript unavailable)"
ClientTranscript(t) == IF Trim(t) # "" THEN Trim(t) ELSE Placeholder

Call(kind, by, qid, text, audio) ==
    [kind |-> kind, by |-> by, qid |-> qid, text |-> text, audio |-> audio,
     stage |-> "sent", ok |-> FALSE, completed |-> FALSE, question |-> NoId]

Without(s, k) == SubSeq(s, 1, k - 1) \o SubSeq(s, k + 1, Len(s))

Open == session.page = "session"

\* the countdown effect is due: React runs it before the next event
EffectPending == Open /\ session.recording /\ session.remainingSeconds <= 0

\* the component mounts and its effect calls fetchCurrent
Mount(u, id) ==
    /\ session.page = "closed"
    /\ FindOwned(interviews, id, u)
    /\ session' = [NoSession EXCEPT !.page = "session", !.user = u, !.id = id,
                                    !.calls = <<Call("fetch", "mount", NoId, "", FALSE)>>]
    /\ UNCHANGED <<db, reqs>>

\* the Start Recording button, shown while a question is displayed and
\* nothing is recorded
StartRecording ==
    /\ Open /\ session.question # NoId /\ ~session.recording
    /\ session' = [session EXCEPT !.recording = TRUE,
                                  !.remainingSeconds = QuestionTimeLimitSeconds]
    /\ UNCHANGED <<db, reqs>>

\* the Stop button, shown while recording
StopRecording ==
    /\ Open /\ session.question # NoId /\ session.recording /\ ~EffectPending
    /\ session' = [session EXCEPT !.recording = FALSE]
    /\ UNCHANGED <<db, reqs>>

\* the interval of the countdown effect
Tick ==
    /\ Open /\ session.recording /\ session.remainingSeconds > 0
    /\ session' = [session EXCEPT !.remainingSeconds = @ - 1]
    /\ UNCHANGED <<db, reqs>>

\* the countdown effect at zero: stopRecording, then submit-answer
AutoSubmit(text) ==
    /\ EffectPending
    /\ Len(session.calls) < MaxCalls
    /\ session' =
          IF session.question = NoId
          THEN [session EXCEPT !.recording = FALSE]
          ELSE [session EXCEPT
                   !.recording = FALSE,
                   !.sent.auto = @ + 1,
                   !.calls = Append(@, Call("submit", "auto", session.question,
                                            ClientTranscript(text), TRUE))]
    /\ UNCHANGED <<db, reqs>>

\* the Submit Answer button, disabled while `submitting`
ManualSubmit(text) ==
    /\ Open /\ session.question # NoId /\ ~session.submitting /\ ~EffectPending
    /\ Len(session.calls) < MaxCalls
    /\ session' = [session EXCEPT
                      !.submitting = TRUE,
                      !.recording = FALSE,
                      !.sent.manual = @ + 1,
                      !.calls = Append(@, Call("submit", "manual", session.question,
                                               ClientTranscript(text), session.recording))]
    /\ UNCHANGED <<db, reqs>>

\* the route serves a submit-answer call
ServeSubmit(k) ==
    /\ k \in 1..Len(session.calls)
    /\ session.calls[k].kind = "submit" /\ session.calls[k].stage = "sent"
    /\ StoreRoom(responses, MaxInFlightResponses)
    /\ LET c == session.calls[k]
           o == SubmitAnswerOutcome(session.user, session.id, c.qid, c.text, c.audio,
                                    ModelFail, "none")
       IN /\ Apply(o)
          /\ session' = [session EXCEPT !.calls[k] =
                            [c EXCEPT !.stage = "replied", !.ok = o.res.code = 200,
                                      !.completed = o.res.completed]]
    /\ UNCHANGED reqs

\* the route serves a current-question call
ServeFetch(k) ==
    /\ k \in 1..Len(session.calls)
    /\ session.calls[k].kind = "fetch" /\ session.calls[k].stage = "sent"
    /\ LET c == session.calls[k]
           res == CurrentQuestionOutcome(session.user, session.id).res
       IN session' = [session EXCEPT !.calls[k] =
                         [c EXCEPT !.stage = "replied", !.ok = res.code = 200,
                                   !.completed = res.completed,
                                   !.question = res.question]]
    /\ UNCHANGED <<db, reqs>>

\* the handler continues after `await interviewAPI.submitAnswer(...)`
SubmitReplied(k) ==
    /\ k \in 1..Len(session.calls)
    /\ session.calls[k].kind = "submit" /\ session.calls[k].stage = "replied"
    /\ ~EffectPending
    /\ LET c == session.calls[k]
           rest == Without(session.calls, k)
       IN session' =
             IF ~Open THEN [session EXCEPT !.calls = rest]
             ELSE IF ~c.ok
             THEN [session EXCEPT !.calls = rest,
                                  !.submitting = IF c.by = "manual" THEN FALSE ELSE @]
             ELSE IF c.completed
             THEN [session EXCEPT !.calls = rest, !.page = "results"]
             ELSE [session EXCEPT
                      !.calls = Append(rest, Call("fetch", c.by, NoId, "", FALSE))]
    /\ UNCHANGED <<db, reqs>>

\* fetchCurrent continues after `await interviewAPI.getCurrentQuestion(id)`,
\* and then the `finally` of the submitAnswer that called it
FetchReplied(k) ==
    /\ k \in 1..Len(session.calls)
    /\ session.calls[k].kind = "fetch" /\ session.calls[k].stage = "replied"
    /\ ~EffectPending
    /\ LET c == session.calls[k]
           rest == Without(session.calls, k)
           submitting == IF c.by = "manual" THEN FALSE ELSE session.submitting
       IN session' =
             IF ~Open THEN [session EXCEPT !.calls = rest]
             ELSE IF ~c.ok
             THEN [session EXCEPT !.calls = rest, !.submitting = submitting]
             ELSE IF c.completed
             THEN [session EXCEPT !.calls = rest, !.page = "results"]
             ELSE [session EXCEPT !.calls = rest,
                                  !.question = c.question,
                                  !.remainingSeconds = QuestionTimeLimitSeconds,
                                  !.sent = [auto |-> 0, manual |-> 0],
                                  !.submitting = submitting]
    /\ UNCHANGED <<db, reqs>>

NextSession ==
    \/ \E u \in Users, in \in InFlightUploadInputs :
          Upload(u, in[1], in[2], in[3], in[4], in[5])
    \/ \E u \in Users, r \in ResumeIds, in \in InFlightCreateInputs :
          Len(interviews) < MaxInFlightInterviews /\ Create(u, r, in[1], in[2])
    \/ \E u \in Users, i \in InterviewIds : Start(u, i, FALSE)
    \/ \E u \in Users, i \in InterviewIds : Mount(u, i)
    \/ StartRecording
    \/ StopRecording
    \/ Tick
    \/ \E text \in ClientTexts : AutoSubmit(text)
    \/ \E text \in ClientTexts : ManualSubmit(text)
    \/ \E k \in 1..MaxCalls : ServeSubmit(k)
    \/ \E k \in 1..MaxCalls : ServeFetch(k)
    \/ \E k \in 1..MaxCalls : SubmitReplied(k)
    \/ \E k \in 1..MaxCalls : FetchReplied(k)

SpecSession == Init /\ [][NextSession]_vars

\* ------------------------------------------------------------ properties
AllQuestionIds == 1..(Len(questions) + 1)
Stored(coll) == 1..Len(coll)
AllIdle == \A s \in Slots : reqs[s] = Idle

\* the Question documents of interview i
QuestionsOf(i) == {q \in Stored(questions) : questions[q].interviewId = i}

\* the Response documents answering a question of interview i
ResponseDocsOf(i) == {r \in Stored(responses) : responses[r].questionId \in QuestionsOf(i)}

\* C1: every interview has 0 <= currentQuestionIndex <= totalQuestions, and
\* its status is completed exactly when currentQuestionIndex = totalQuestions.
C1_IndexWithinTotal ==
    \A i \in Stored(interviews) :
        /\ 0 <= interviews[i].currentQuestionIndex
        /\ interviews[i].currentQuestionIndex <= interviews[i].totalQuestions
        /\ interviews[i].status = "completed"
              <=> interviews[i].currentQuestionIndex = interviews[i].totalQuestions

\* C2: a submit-answer to a completed interview fails, creates no Response and
\* leaves currentQuestionIndex and the responses list as they were.
C2_SubmitAfterCompletedFails ==
    \A u \in Users, i \in Stored(interviews), q \in AllQuestionIds, in \in SubmitInputs :
        (interviews[i].userId = u /\ interviews[i].status = "completed") =>
            LET o == SubmitAnswerOutcome(u, i, q, in[1], in[2], in[3], in[4])
            IN /\ o.res.code # 200
               /\ o.responses = responses
               /\ o.interviews[i].currentQuestionIndex = interviews[i].currentQuestionIndex
               /\ o.interviews[i].responses = interviews[i].responses

\* C3: no step takes an interview out of completed.
C3_CompletedIsFinal ==
    [][\A i \in Stored(interviews) :
          interviews[i].status = "completed" => interviews'[i].status = "completed"]_vars

\* C4: a submit-answer whose questionId is not a Question of the target
\* interview is answered 404 'Question not found' and writes nothing.
C4_ForeignQuestionRejected ==
    \A u \in Users, i \in Stored(interviews), q \in AllQuestionIds, in \in SubmitInputs :
        (interviews[i].userId = u /\ q \notin QuestionsOf(i)) =>
            LET o == SubmitAnswerOutcome(u, i, q, in[1], in[2], in[3], in[4])
            IN /\ o.res = Reply(404, "Question not found")
               /\ o.responses = responses
               /\ o.interviews = interviews

\* C4 witness: an interview of a user, and a Question of another interview.
C4_Witness ==
    \E i \in Stored(interviews), q \in Stored(questions) :
        /\ questions[q].interviewId # i
        /\ interviews[i].questions # <<>>

\* C5: a completed interview has totalQuestions Responses, and each of its
\* Question ids is the questionId of exactly one of them.
C5_OneResponsePerQuestion ==
    \A i \in Stored(interviews) :
        interviews[i].status = "completed" =>
            /\ Len(interviews[i].responses) = interviews[i].totalQuestions
            /\ \A q \in Range(interviews[i].questions) :
                  Cardinality({k \in 1..Len(interviews[i].responses) :
                      responses[interviews[i].responses[k]].questionId = q}) = 1

\* C6: once the submit-answer requests for an interview have run to their
\* end, in whatever interleaving, currentQuestionIndex is the number of
\* Responses created for it, and no index position holds two Responses.
C6_SubmitsSerialized ==
    AllIdle =>
        \A i \in Stored(interviews) :
            /\ interviews[i].currentQuestionIndex = Cardinality(ResponseDocsOf(i))
            /\ Len(interviews[i].responses) <= interviews[i].currentQuestionIndex

\* C7: when the model call of the evaluator fails, submit-answer succeeds,
\* stores a Response with the neutral fallback evaluation (sub-scores 3,
\* sentiment neutral, no flag, overallScore 3.0) and advances the index by one.
C7_NeutralFallbackStored ==
    \A u \in Users, i \in Stored(interviews), q \in Stored(questions), t \in Transcripts :
        (interviews[i].userId = u /\ q \in QuestionsOf(i)) =>
            LET o == SubmitAnswerOutcome(u, i, q, t, FALSE, ModelFail, "none")
            IN /\ o.res.code = 200
               /\ Len(o.responses) = Len(responses) + 1
               /\ o.responses[Len(o.responses)].evaluation =
                     [technicalDepth |-> 3, clarity |-> 3, confidence |-> 3,
                      sentiment |-> "neutral",
                      flags |-> [reading |-> FALSE, silence |-> FALSE, irrelevant |-> FALSE],
                      overallScore |-> 30]
               /\ o.interviews[i].currentQuestionIndex =
                     interviews[i].currentQuestionIndex + 1

\* C8: of the first N successful submit-answer calls to an interview with
\* totalQuestions = N, the N-th answers completed = true and the earlier ones
\* completed = false; after the N-th the status is completed,
\* currentQuestionIndex = N and current-question gives the completed sentinel.
C8_CompletesAtLast ==
    \A i \in Stored(interviews) :
        LET N == interviews[i].totalQuestions IN
        /\ Len(interviews[i].responses) = interviews[i].currentQuestionIndex
        /\ Len(interviews[i].responses) = N =>
              CurrentQuestionOf(interviews[i]).completed
        /\ \A q \in AllQuestionIds, in \in SubmitInputs :
              LET o == SubmitAnswerOutcome(interviews[i].userId, i, q,
                                           in[1], in[2], in[3], in[4])
                  k == Len(interviews[i].responses) + 1
              IN (o.res.code = 200 /\ k <= N) =>
                    /\ o.res.completed <=> k = N
                    /\ k = N =>
                          /\ o.interviews[i].status = "completed"
                          /\ o.interviews[i].currentQuestionIndex = N
                          /\ CurrentQuestionOf(o.interviews[i]).completed

\* C8 witness: an interview of two questions after two successful submits,
\* one per question.
C8_Witness ==
    \E i \in Stored(interviews) :
        /\ interviews[i].totalQuestions = 2
        /\ Len(interviews[i].questions) = 2
        /\ Len(interviews[i].responses) = 2
        /\ {responses[interviews[i].responses[k]].questionId : k \in 1..2}
              = Range(interviews[i].questions)
        /\ interviews[i].status = "completed"

\* C9: generate-report on an interview that is not completed is rejected,
\* stores no Report and leaves the interview as it was; so every Report is of
\* an interview that has been completed.
C9_ReportOnlyWhenCompleted ==
    /\ \A u \in Users, i \in Stored(interviews), in \in ReportInputs :
          (interviews[i].userId = u /\ interviews[i].status # "completed") =>
              LET o == GenerateReportOutcome(u, i, in[1], in[2])
              IN /\ o.res = Reply(400, "Interview must be completed to generate report")
                 /\ o.reports = reports
                 /\ o.interviews = interviews
    /\ \A r \in Stored(reports) : interviews[reports[r].interviewId].endTime

\* C9 witness: an interview in progress that has Responses a report could be
\* built from, while a Report of a completed interview exists.
C9_Witness ==
    /\ reports # <<>>
    /\ \E i \in Stored(interviews) :
          /\ interviews[i].status = "in-progress"
          /\ ResponsesFor(responses, interviews[i]) # <<>>

\* C10: once the generate-report requests for an interview have run to their
\* end, in whatever interleaving, its reportId is the Report created last.
C10_ReportIdIsNewest ==
    AllIdle =>
        \A i \in Stored(interviews) :
            LET mine == {r \in Stored(reports) : reports[r].interviewId = i}
            IN mine # {} =>
                  /\ interviews[i].reportId \in mine
                  /\ \A r \in mine : r <= interviews[i].reportId

\* the sum of field f of the evaluations of the Responses in the set rs
RECURSIVE EvaluationSum(_, _)
EvaluationSum(rs, f) ==
    IF rs = {} THEN 0
    ELSE LET r == CHOOSE x \in rs : TRUE
         IN responses[r].evaluation[f] + EvaluationSum(rs \ {r}, f)

\* C11: the Report a generate-report stores has, for overall (also given as
\* summary.averageScore), technicalDepth, clarity and confidence, the sum of
\* that score over all Responses of the interview divided by their number.
C11_ScoresAreMeans ==
    \A u \in Users, i \in Stored(interviews), in \in ReportInputs :
        LET o == GenerateReportOutcome(u, i, in[1], in[2])
            mine == ResponseDocsOf(i)
            mean(f) == [sum |-> EvaluationSum(mine, f), n |-> Cardinality(mine)]
        IN Len(o.reports) > Len(reports) =>
              LET report == o.reports[Len(o.reports)]
              IN /\ mine # {}
                 /\ report.scores.overall = mean("overallScore")
                 /\ report.summary.averageScore = mean("overallScore")
                 /\ report.scores.technicalDepth = mean("technicalDepth")
                 /\ report.scores.clarity = mean("clarity")
                 /\ report.scores.confidence = mean("confidence")

\* C11 witness: a stored Report of an interview whose Responses numbered
\* otherwise than its totalQuestions, with differing scores among them.
C11_Witness ==
    \E r \in Stored(reports) :
        /\ reports[r].scores.overall.n # reports[r].summary.totalQuestions
        /\ reports[r].scores.overall.sum # FallbackOverall * reports[r].scores.overall.n

\* C12: each fallback question builder gives exactly 10 questions for every
\* profile, and for a profile with at least 3 skills the first 3 are of
\* category technical, the i-th embedding the i-th skill name; an interview
\* created from a fallback list has totalQuestions 10.
C12_FallbackGivesTen ==
    /\ \A r \in Stored(resumes) :
          LET p == resumes[r].parsedData
              good(qs) ==
                  /\ Len(qs) = 10
                  /\ Len(p.skills) >= 3 =>
                        \A i \in 1..3 : /\ qs[i].category = "technical"
                                        /\ qs[i].question.arg = p.skills[i]
          IN good(generateFallbackQuestions(p)) /\ good(GenerateQuestionsFallback(p))
    /\ \A i \in Stored(interviews) : interviews[i].totalQuestions = 10

\* C12 witness: an interview created from the fallback list of a profile with
\* 5 skills, 3 projects, 2 experience entries and 1 internship.
C12_Witness ==
    /\ interviews # <<>>
    /\ \E r \in Stored(resumes) :
          LET p == resumes[r].parsedData
          IN Len(p.skills) = 5 /\ Len(p.projects) = 3
             /\ Len(p.experience) = 2 /\ Len(p.internships) = 1

\* the user owning a Response or a Report, through its interview
ResponseOwner(r) == interviews[questions[responses[r].questionId].interviewId].userId
ReportOwner(p) == interviews[reports[p].interviewId].userId

\* C13: every operation on a resume, interview, report or response that is
\* not the caller's answers 404 and writes nothing, exactly as the same
\* operation does on an id that no document has.
C13_OthersLookAbsent ==
    \A u \in Users :
        LET absent(o, none) == o = none /\ o.res.code = 404 /\ o = Rejected(o.res)
        IN /\ \A r \in Stored(resumes) :
                 LET no == Len(resumes) + 1 IN
                 resumes[r].userId # u =>
                    /\ absent(GetResumeOutcome(u, r), GetResumeOutcome(u, no))
                    /\ \A f \in {"none", "file", "resume", "user"} :
                          absent(DeleteResumeOutcome(u, r, f), DeleteResumeOutcome(u, no, f))
                    /\ \A in \in CreateInputs :
                          absent(CreateOutcome(u, r, in[1], in[2]),
                                 CreateOutcome(u, no, in[1], in[2]))
           /\ \A i \in Stored(interviews) :
                 LET no == Len(interviews) + 1 IN
                 interviews[i].userId # u =>
                    /\ absent(GetInterviewOutcome(u, i), GetInterviewOutcome(u, no))
                    /\ absent(CurrentQuestionOutcome(u, i), CurrentQuestionOutcome(u, no))
                    /\ absent(GetSummaryOutcome(u, i), GetSummaryOutcome(u, no))
                    /\ \A f \in BOOLEAN :
                          absent(StartOutcome(u, i, f), StartOutcome(u, no, f))
                    /\ \A q \in AllQuestionIds, in \in SubmitInputs :
                          absent(SubmitAnswerOutcome(u, i, q, in[1], in[2], in[3], in[4]),
                                 SubmitAnswerOutcome(u, no, q, in[1], in[2], in[3], in[4]))
                    /\ \A in \in ReportInputs :
                          absent(GenerateReportOutcome(u, i, in[1], in[2]),
                                 GenerateReportOutcome(u, no, in[1], in[2]))
           /\ \A p \in Stored(reports) :
                 ReportOwner(p) # u =>
                    absent(GetReportOutcome(u, p), GetReportOutcome(u, Len(reports) + 1))
           /\ \A r \in Stored(responses) :
                 ResponseOwner(r) # u =>
                    absent(GetResponseOutcome(u, r), GetResponseOutcome(u, Len(responses) + 1))

\* C13 witness: a resume, an interview with an answered question, a Response
\* and a Report, all of one user, while there is another user.
C13_Witness ==
    \E u \in Users :
        /\ \E r \in Stored(resumes) : resumes[r].userId = u
        /\ \E i \in Stored(interviews) : interviews[i].userId = u
        /\ \E r \in Stored(responses) : ResponseOwner(r) = u
        /\ \E p \in Stored(reports) : ReportOwner(p) = u
        /\ Users \ {u} # {}

\* the Response documents answering question q
ResponsesTo(resps, q) == {r \in 1..Len(resps) : resps[r].questionId = q}

\* C14: no question ever has two Responses; in particular, when a Response
\* was saved and the update of its interview failed, a submit-answer for the
\* same question does not store a second one.
C14_OneResponsePerQuestionId ==
    /\ \A q \in Stored(questions) : Cardinality(ResponsesTo(responses, q)) <= 1
    /\ \A u \in Users, i \in Stored(interviews), q \in Stored(questions), in \in SubmitInputs :
          (/\ interviews[i].userId = u
           /\ \E r \in ResponsesTo(responses, q) : r \notin Range(interviews[i].responses)) =>
              LET o == SubmitAnswerOutcome(u, i, q, in[1], in[2], in[3], in[4])
              IN Cardinality(ResponsesTo(o.responses, q)) <= 1

\* C15: an upload of an accepted type whose text extraction throws is not
\* aborted: a Resume is stored all the same.
C15_UploadSurvivesParseFailure ==
    \A u \in Users, in \in UploadInputs :
        (UploadAccepted(in[1]) /\ ~in[2] /\ in[5] = "none") =>
            LET o == UploadOutcome(u, in[1], in[2], in[3], in[4], in[5])
            IN /\ o.res.code = 201
               /\ Len(o.resumes) = Len(resumes) + 1
               /\ o.resumes[Len(o.resumes)].userId = u

\* C16: generate-report on a completed interview with fewer Responses than
\* its totalQuestions fails and stores no Report.
C16_IncompleteResponsesRejected ==
    \A u \in Users, i \in Stored(interviews), in \in ReportInputs :
        (/\ interviews[i].userId = u
         /\ interviews[i].status = "completed"
         /\ \/ Len(ResponsesFor(responses, interviews[i])) < interviews[i].totalQuestions
            \/ Cardinality(ResponseDocsOf(i)) < interviews[i].totalQuestions) =>
            LET o == GenerateReportOutcome(u, i, in[1], in[2])
            IN /\ o.res.code = 400
               /\ o.reports = reports
               /\ o.interviews = interviews

\* C16 witness: a completed interview for which fewer Responses than its
\* totalQuestions are found.
C16_Witness ==
    \E i \in Stored(interviews) :
        /\ interviews[i].status = "completed"
        /\ Len(ResponsesFor(responses, interviews[i])) < interviews[i].totalQuestions

\* C17: the k-th Response attached to an interview (k up to totalQuestions)
\* answers the k-th entry of the interview's questions list.
C17_ResponsesInQuestionOrder ==
    \A i \in Stored(interviews) :
        \A k \in 1..Len(interviews[i].responses) :
            (k <= interviews[i].totalQuestions /\ k <= Len(interviews[i].questions)) =>
                responses[interviews[i].responses[k]].questionId = interviews[i].questions[k]

\* C18: a submit-answer is accepted only on an interview that was started:
\* every interview with a Response has startTime set and is not pending, and
\* no pending interview has a submit-answer accepted.
C18_AnswersOnlyAfterStart ==
    /\ \A i \in Stored(interviews) :
          (interviews[i].responses # <<>> \/ ResponseDocsOf(i) # {}) =>
              interviews[i].startTime /\ interviews[i].status # "pending"
    /\ \A u \in Users, i \in Stored(interviews), q \in AllQuestionIds, in \in SubmitInputs :
          (interviews[i].userId = u /\ interviews[i].status = "pending") =>
              SubmitAnswerOutcome(u, i, q, in[1], in[2], in[3], in[4]).res.code # 200

\* C19: a create in which no save is interrupted answers 201 and stores an
\* Interview that is pending, at index 0, with totalQuestions the number of
\* Questions stored for it and listed in its questions, whatever the
\* categories generated; and no stored Interview, whether its create ran
\* through or not, has totalQuestions other than the length of its questions.
C19_TotalMatchesQuestions ==
    /\ \A i \in Stored(interviews) :
          interviews[i].totalQuestions = Len(interviews[i].questions)
    /\ \A u \in Users, r \in Stored(resumes), in \in CreateInputs :
          (resumes[r].userId = u /\ in[2] = "none") =>
              LET o == CreateOutcome(u, r, in[1], in[2])
                  made == o.interviews[Len(o.interviews)]
              IN /\ o.res.code = 201
                 /\ Len(o.interviews) = Len(interviews) + 1
                 /\ made.status = "pending"
                 /\ made.currentQuestionIndex = 0
                 /\ made.totalQuestions = Len(made.questions)
                 /\ made.totalQuestions = Len(o.questions) - Len(questions)

\* C20: when the model call for questions fails, or gives something that is
\* not an array, or gives an empty array, create answers 201 and stores the
\* interview with the questions of a fallback list, none missing.
C20_CreateFallsBack ==
    \A u \in Users, r \in Stored(resumes), in \in CreateInputs :
        (/\ resumes[r].userId = u
         /\ in[2] = "none"
         /\ in[1].kind # "json" \/ in[1].data = <<>>) =>
            LET o == CreateOutcome(u, r, in[1], in[2])
                made == o.interviews[Len(o.interviews)]
            IN /\ o.res.code = 201
               /\ Len(o.interviews) = Len(interviews) + 1
               /\ made.questions # <<>>
               /\ Len(made.questions) = 10

\* C21: when the model call of an upload fails, the profile stored is what
\* the fallback heuristic derives from the extracted text; the text
\* 'Skills: Python, React, AWS' gives the skills Python, React, AWS.
C21_HeuristicProfileStored ==
    \A u \in Users, in \in UploadInputs :
        (/\ UploadAccepted(in[1]) /\ in[2] /\ in[3] # EmptyText
         /\ in[4] = ModelFail /\ in[5] = "none") =>
            LET o == UploadOutcome(u, in[1], in[2], in[3], in[4], in[5])
                stored == o.resumes[Len(o.resumes)]
            IN /\ Len(o.resumes) = Len(resumes) + 1
               /\ stored.parsedData = ExtractStructuredFallback(in[3])
               /\ in[3] = SkillsText =>
                     stored.parsedData.skills = <<"Python", "React", "AWS">>

C23_IndexNeverDecreases ==
    [][\A i \in Stored(interviews) :
          interviews'[i].currentQuestionIndex >= interviews[i].currentQuestionIndex]_vars

\* the number of Responses to the questions listed in interview i whose flag
\* f is true
Flagged(i, f) ==
    Cardinality({r \in Stored(responses) :
                    /\ responses[r].questionId \in Range(interviews[i].questions)
                    /\ responses[r].evaluation.flags[f]})

\* C24: in the Report a generate-report stores and in the body of the summary
\* endpoint, readingCount, silenceCount and irrelevantCount are the numbers
\* of Responses with that flag true, and totalFlags is their sum.
C24_FlagCountsAddUp ==
    \A i \in Stored(interviews) :
        LET u == interviews[i].userId
            counted(total, reading, silence, irrelevant) ==
                /\ reading = Flagged(i, "reading")
                /\ silence = Flagged(i, "silence")
                /\ irrelevant = Flagged(i, "irrelevant")
                /\ total = reading + silence + irrelevant
            body == GetSummaryOutcome(u, i).res.body
        IN /\ counted(body.flags.total, body.flags.reading,
                      body.flags.silence, body.flags.irrelevant)
           /\ \A in \in ReportInputs :
                 LET o == GenerateReportOutcome(u, i, in[1], in[2])
                 IN Len(o.reports) > Len(reports) =>
                       LET flags == o.reports[Len(o.reports)].flags
                       IN counted(flags.totalFlags, flags.readingCount,
                                  flags.silenceCount, flags.irrelevantCount)

\* C24 witness: a stored Report counting a Response with two flags true.
C24_Witness ==
    \E p \in Stored(reports) :
        /\ reports[p].flags.readingCount >= 1
        /\ reports[p].flags.irrelevantCount >= 1
        /\ reports[p].flags.totalFlags >= 2

\* the fields of an Interview that record its progression
Progression(doc) ==
    <<doc.status, doc.currentQuestionIndex, doc.responses, doc.startTime, doc.endTime>>

\* C25: no step changes a stored Question or Response; a step that changes
\* the status, currentQuestionIndex, responses, startTime or endTime of an
\* interview is a start or the interview save of a submit-answer; the read
\* endpoints write nothing, and generate-report leaves those fields alone.
C25_OnlyOwnersMutate ==
    [][/\ \A q \in Stored(questions) : questions'[q] = questions[q]
       /\ \A r \in Stored(responses) : responses'[r] = responses[r]
       /\ (\E i \in Stored(interviews) : Progression(interviews'[i]) # Progression(interviews[i])) =>
              \/ \E u \in Users, i \in Stored(interviews), f \in BOOLEAN : Start(u, i, f)
              \/ \E s \in Slots : SubmitSaveInterview(s)
              \/ \E u \in Users, i \in Stored(interviews), q \in AllQuestionIds,
                    in \in SubmitInputs : SubmitAnswer(u, i, q, in[1], in[2], in[3], in[4])
       /\ \A u \in Users, i \in Stored(interviews) :
             /\ CurrentQuestionOutcome(u, i) = Rejected(CurrentQuestionOutcome(u, i).res)
             /\ GetInterviewOutcome(u, i) = Rejected(GetInterviewOutcome(u, i).res)
             /\ GetSummaryOutcome(u, i) = Rejected(GetSummaryOutcome(u, i).res)
             /\ \A p \in Stored(reports) :
                   GetReportOutcome(u, p) = Rejected(GetReportOutcome(u, p).res)
             /\ \A in \in ReportInputs :
                   LET o == GenerateReportOutcome(u, i, in[1], in[2])
                   IN /\ o.questions = questions
                      /\ o.responses = responses
                      /\ \A j \in Stored(interviews) :
                            Progression(o.interviews[j]) = Progression(interviews[j])
       /\ \A s \in Slots :
             (reqs[s].op = "generate-report" /\ reqs[s].pc = "save-interview") =>
                 Progression(SaveDelta(interviews[reqs[s].id], reqs[s].read,
                                       [reqs[s].read EXCEPT !.reportId = reqs[s].made]))
                     = Progression(interviews[reqs[s].id])]_vars

\* C25 witness: a generate-report about to save its copy of an interview
\* that a submit-answer has advanced since the copy was loaded.
C25_Witness ==
    \E s \in Slots :
        /\ reqs[s].op = "generate-report"
        /\ reqs[s].pc = "save-interview"
        /\ Progression(reqs[s].read) # Progression(interviews[reqs[s].id])

\* C26: current-question answers with the completed sentinel exactly when
\* currentQuestionIndex has reached totalQuestions, which is exactly when the
\* status is completed; otherwise it answers with the question at position
\* currentQuestionIndex of the interview's list.
C26_SentinelIffCompleted ==
    \A i \in Stored(interviews) :
        LET doc == interviews[i]
            res == CurrentQuestionOutcome(doc.userId, i).res
        IN /\ res.code = 200
           /\ res.completed <=> doc.currentQuestionIndex >= doc.totalQuestions
           /\ res.completed <=> doc.status = "completed"
           /\ ~res.completed => res.question = doc.questions[doc.currentQuestionIndex + 1]

\* C27: every interview's responses list is as long as its
\* currentQuestionIndex, and the list references exactly the Response
\* documents that answer a question of the interview: none is lost and none
\* is an orphan, whatever fails between the two saves of a submit-answer.
C27_ResponsesMatchIndex ==
    \A i \in Stored(interviews) :
        /\ Len(interviews[i].responses) = interviews[i].currentQuestionIndex
        /\ Range(interviews[i].responses) = ResponseDocsOf(i)

\* C28: the client sends at most one submit-answer for a displayed question:
\* the countdown and the Submit Answer button never both submit it, and the
\* countdown does not submit it again while its first request is in flight.
C28_OneSubmitPerDisplayedQuestion ==
    /\ session.sent.auto + session.sent.manual <= 1
    /\ \A j, k \in 1..Len(session.calls) :
          (/\ j # k
           /\ session.calls[j].kind = "submit"
           /\ session.calls[k].kind = "submit")
          => session.calls[j].qid # session.calls[k].qid

\* C29: in the pairs generate-report builds for a completed interview, the
\* answer paired with the i-th question by position is a Response to that
\* question.
C29_PairedByQuestion ==
    \A i \in Stored(interviews) :
        ReportAllowed(interviews[i]) =>
            LET paired == Paired(interviews[i], ResponsesFor(responses, interviews[i]))
            IN \A k \in 1..Len(paired) :
                  paired[k].a # NoId => responses[paired[k].a].questionId = paired[k].q

\* the Resume records `rs`, the stored files `fs` and the users' lists `ur`
\* agree: every record has its file and its entry in the owner's list, every
\* file belongs to a record, every entry refers to a record of that user
Consistent(rs, fs, ur) ==
    LET live == {r \in 1..Len(rs) : rs[r] # DeletedResume}
    IN /\ \A r \in live : rs[r].filePath \in fs /\ r \in Range(ur[rs[r].userId])
       /\ \A f \in fs : \E r \in live : rs[r].filePath = f
       /\ \A u \in Users : \A r \in Range(ur[u]) : r \in live /\ rs[r].userId = u

UploadFailures == {"none", "resume", "user"}
DeleteFailures == {"none", "file", "resume", "user"}

\* C30: Resume records, stored files and the users' lists are consistent in
\* every state and after every outcome of an upload (success, validation or
\* parse failure, failure of a persistence step) and of a delete.
C30_ResumeFileListConsistent ==
    /\ Consistent(resumes, files, userResumes)
    /\ \A u \in Users, in \in UploadInputs, failAt \in UploadFailures :
          LET o == UploadOutcome(u, in[1], in[2], in[3], in[4], failAt)
          IN Consistent(o.resumes, o.files, o.userResumes)
    /\ \A u \in Users, id \in ResumeIds, failAt \in DeleteFailures :
          LET o == DeleteResumeOutcome(u, id, failAt)
          IN Consistent(o.resumes, o.files, o.userResumes)

====
